---------------------------- MODULE Spec2Model ----------------------------
(***************************************************************************)
(* Kevio: the audio-to-utterance pipeline of src/src/main.py               *)
(* (SpeechToTextAgent), with the frame queue of src/src/audio_capture.py,  *)
(* the energy gate of src/src/vad.py and the recognizer wrapper of         *)
(* src/src/speech_recognition.py.                                          *)
(*                                                                         *)
(* Threads of control: the device capture callback, the pipeline loop      *)
(* threads spawned by start(), and one caller of start/stop/toggle.        *)
(* A text is a sequence of characters; " " is the whitespace character.    *)
(***************************************************************************)
EXTENDS Integers, Sequences, FiniteSets, TLC

\* ------------------------------------------------------------------ bounds
MaxFrames == 3        \* frames the device delivers to one pipeline run
MaxThreshold == 2     \* largest silence_threshold configured
MaxCalls == 4         \* calls of start/stop/toggle in one lifecycle run
MaxThreads == 2       \* loop threads spawned in one lifecycle run
LifeFrames == 2       \* frames the device delivers in one lifecycle run
RestartCalls == 3     \* calls of start/stop in one restart run
PauseCalls == 3       \* calls of start/toggle in one pause run
MaxClients == 2       \* threads calling one SpeechRecognizer
MaxOps == 4           \* calls made on one SpeechRecognizer
MaxSamples == 3       \* samples in a frame given to is_speech
MaxAdds == 5          \* frames added to one AudioBuffer
SquareCeiling == 536870912   \* the sum of squares of a frame is counted up to it
MaxLevel == 4         \* largest magnitude of an aggressiveness level

\* ------------------------------------------------------- program constants
ChunkMs == 64                      \* main.py:113, the hard-wired frame length
FullScale == 32768                 \* vad.py:36
DefaultAggressiveness == 1         \* config.py:12
DefaultChunkSize == 1024           \* config.py:18
DefaultSampleRate == 16000         \* config.py:19
VadFrameMs == 30                   \* vad.py:67, the frame length AudioBuffer assumes

\* ------------------------------------------------------------------- texts
Chars == {"a", "b", " "}
Texts == {<<>>} \cup {<<c>> : c \in Chars}

\* Optional[str] and Optional[bytes]
None == [some |-> FALSE, text |-> <<>>]
Some(t) == [some |-> TRUE, text |-> t]
\* Python truthiness of an Optional[str]: None and "" are falsy
Truthy(o) == o.some /\ o.text # <<>>
\* `text or None`
OrNone(t) == IF t # <<>> THEN Some(t) ELSE None

RECURSIVE Join(_)
\* ' '.join(segments)
Join(segs) ==
    IF segs = <<>> THEN <<>>
    ELSE IF Len(segs) = 1 THEN segs[1]
    ELSE segs[1] \o <<" ">> \o Join(Tail(segs))

RECURSIVE LStrip(_)
LStrip(s) == IF s # <<>> /\ Head(s) = " " THEN LStrip(Tail(s)) ELSE s

RECURSIVE RStrip(_)
RStrip(s) ==
    IF s # <<>> /\ s[Len(s)] = " " THEN RStrip(SubSeq(s, 1, Len(s) - 1)) ELSE s

\* str.strip()
Strip(s) == RStrip(LStrip(s))

\* ------------------------------------------------------------------ frames
\* A frame is a block of samples of one magnitude, identified by its place in
\* the capture order.
Amps == {0, 32767}
NoChunk == [id |-> 0, amp |-> 0]
Frame(i, a) == [id |-> i, amp |-> a]

\* VoiceActivityDetector._adjust_threshold, in thousandths
ThresholdMilli(aggressiveness) ==
    IF aggressiveness = 0 THEN 2
    ELSE IF aggressiveness = 1 THEN 5
    ELSE IF aggressiveness = 2 THEN 8
    ELSE 10

\* VoiceActivityDetector.is_speech on a frame of constant magnitude amp:
\* rms = amp, and rms > threshold * 32768
is_speech(chunk, aggressiveness) ==
    chunk.amp * 1000 > ThresholdMilli(aggressiveness) * FullScale

\* Values of int16 samples: the extremes, zero, and the two magnitudes on
\* either side of the lowest threshold (0.002 * 32768 = 65.536).
SampleValues == {-32768, -32767, 0, 65, -66, 32767}

RECURSIVE SumSquares(_)
\* sum(audio_data ** 2), counted up to SquareCeiling: a ceiling above
\* n * (threshold * 32768)^2 for every frame length and threshold used here,
\* which keeps the sum within 32-bit integers
SumSquares(samples) ==
    IF samples = <<>> THEN 0
    ELSE LET sum == Head(samples) * Head(samples) + SumSquares(Tail(samples))
         IN  IF sum > SquareCeiling THEN SquareCeiling ELSE sum

\* rms_exceeds comparing rms with threshold, not with threshold * 32768:
\* sum / n > (milli / 1000)^2
rms_exceeds_unscaled(samples, milli) ==
    SumSquares(samples) > (Len(samples) * milli * milli) \div 1000000

\* vad.py:35-36: sqrt(mean(x^2)) > threshold * 32768, for the threshold
\* milli / 1000, in exact arithmetic: sum / n > (milli * 32768 / 1000)^2,
\* that is sum > n * milli^2 * 16777216 / 15625, where
\* 16777216 = 1073 * 15625 + 11591
rms_exceeds(samples, milli) ==
    LET k == Len(samples) * milli * milli IN
    SumSquares(samples) > k * 1073 + (k * 11591) \div 15625

\* VoiceActivityDetector.is_speech on the bytes of samples, followed by one
\* odd byte if odd (np.frombuffer then raises, and the except clause
\* returns False)
is_speech_bytes(samples, odd, aggressiveness) ==
    IF odd THEN FALSE
    ELSE IF Len(samples) = 0 THEN FALSE
    ELSE rms_exceeds(samples, ThresholdMilli(aggressiveness))

\* ------------------------------------------------------------- recognizer
\* What the decoder does on one AcceptWaveform: "partial" (returns False),
\* "segment" (returns True, Result() holds text), "fault" (raises).
AcceptOutcomes(texts) ==
    {[kind |-> "partial", text |-> <<>>], [kind |-> "fault", text |-> <<>>]}
    \cup {[kind |-> "segment", text |-> t] : t \in texts}

\* What the decoder does on FinalResult: "final" (text) or "fault".
FlushOutcomes(texts) ==
    {[kind |-> "fault", text |-> <<>>]}
    \cup {[kind |-> "final", text |-> t] : t \in texts}

\* SpeechRecognizer.accept_chunk
accept_chunk(outcome) ==
    IF outcome.kind = "fault" THEN None
    ELSE IF outcome.kind = "segment" THEN OrNone(outcome.text)
    ELSE None

\* SpeechRecognizer.flush_final
flush_final(outcome) ==
    IF outcome.kind = "fault" THEN None
    ELSE OrNone(outcome.text)

\* --------------------------------------------------------------- pipeline
\* silence_threshold = silence_timeout_ms // 64
silence_threshold(silence_timeout_ms) == silence_timeout_ms \div ChunkMs

\* AppendIf putting the new segment in front
AppendIfFront(segs, o) == IF Truthy(o) THEN <<o.text>> \o segs ELSE segs

\* accumulated_segments.append(x) guarded by `if x:`
AppendIf(segs, o) == IF Truthy(o) THEN Append(segs, o.text) ELSE segs

\* FullText without the strip()
FullTextUntrimmed(segs) == Join(segs)

\* ' '.join(accumulated_segments).strip()
FullText(segs) == Strip(Join(segs))


\* ------------------------------------------------------------------ state
VARIABLES
    scope,              \* what one run draws from: frames, calls, decoder texts
    config,             \* ConfigManager.config, read through config.get
    is_running,         \* SpeechToTextAgent.is_running
    is_listening,       \* SpeechToTextAgent.is_listening
    processing_thread,  \* SpeechToTextAgent._processing_thread (0: None)
    audio_capture,      \* SpeechToTextAgent.audio_capture: "none" or "object"
    is_recording,       \* AudioCapture.is_recording
    stream,             \* AudioCapture.stream: "none", "created", "active"
    audio_buffer,       \* AudioCapture._audio_buffer
    thr,                \* the loop threads: position and locals of _process_audio
    spawned,            \* loop threads created so far
    caller,             \* the thread calling start/stop/toggle: its position
    calls,              \* calls made so far
    captured,           \* frames the device has delivered so far
    appended,           \* ids appended to the current AudioCapture's queue
    popped,             \* ids read_chunk returned from the current AudioCapture
    hist,               \* frames given to the detector and the recognizer
    flushes,            \* flush_final calls: frame, remainder returned
    transcripts,        \* on_transcription calls: frame, text
    last_status,        \* the last on_status_change call: status, calling thread
    agent_audio_buffer, \* SpeechToTextAgent._audio_buffer, an AudioBuffer
    rec_lock,           \* SpeechRecognizer._lock: 0, or the thread holding it
    kaldi,              \* SpeechRecognizer.recognizer, the decoder object
    client,             \* the threads calling one SpeechRecognizer
    rec_calls,          \* calls made on that SpeechRecognizer so far
    probe               \* one call of VoiceActivityDetector.is_speech

vars == <<scope, config, is_running, is_listening, processing_thread, audio_capture,
          is_recording, stream, audio_buffer, thr, spawned, caller, calls,
          captured, appended, popped, hist, flushes, transcripts, last_status,
          agent_audio_buffer, rec_lock, kaldi, client, rec_calls, probe>>

\* The agent, its capture device, its loop threads and its caller.
pipeline_vars == <<scope, config, is_running, is_listening, processing_thread,
                   audio_capture, is_recording, stream, audio_buffer, thr, spawned,
                   caller, calls, captured, appended, popped, hist, flushes,
                   transcripts, last_status>>

\* The components as exercised on their own, outside a pipeline run.
unit_vars == <<agent_audio_buffer, rec_lock, kaldi, client, rec_calls, probe>>
recognizer_vars == <<rec_lock, kaldi, client, rec_calls>>

agent_vars == <<is_running, is_listening, processing_thread>>
capture_vars == <<audio_capture, is_recording, stream>>
queue_vars == <<audio_buffer, appended, popped>>
caller_vars == <<caller, calls>>
loop_ghosts == <<hist, flushes, transcripts>>

Threads == 1..MaxThreads

\* The locals of _process_audio at its entry (main.py:113-117). fault tells
\* which calls made for the frame in hand took their except clause: "vad",
\* "rec", "both" at the frame, "flush" at the endpoint.
FreshLocals(timeout_ms) ==
    [pc |-> "test",
     silence_threshold |-> silence_threshold(timeout_ms),
     silence_count |-> 0,
     in_utterance |-> FALSE,
     accumulated_segments |-> <<>>,
     chunk |-> NoChunk,
     full_text |-> <<>>,
     fault |-> "none"]

Unborn == [FreshLocals(0) EXCEPT !.pc = "unborn"]

\* A thread that has left _process_audio holds no locals any more: by the loop
\* test ("dead") or by an exception that left the loop body ("crashed").
Ended(how) == [FreshLocals(0) EXCEPT !.pc = how]

\* Stopped, Listening or Paused, from the two flags
Mode(running, listening) ==
    IF ~running THEN "stopped" ELSE IF listening THEN "listening" ELSE "paused"

NoSnapshot ==
    [is_running |-> FALSE, is_listening |-> FALSE, processing_thread |-> 0,
     audio_capture |-> "none", is_recording |-> FALSE, stream |-> "none",
     spawned |-> 0]

IdleCaller ==
    [op |-> "idle", pc |-> "idle", failing |-> FALSE, failed_at |-> "none",
     cb_raised |-> FALSE, last |-> "none", prev |-> "none", result |-> "none",
     notes |-> <<>>, entry |-> NoSnapshot, entry0 |-> "stopped",
     entry_loop |-> "none", entry_frames |-> 0]

\* Values of silence_timeout_ms, exact multiples of the frame length and not.
SilenceTimeouts ==
    {k * ChunkMs + (IF k % 2 = 0 THEN ChunkMs - 1 ELSE 0) : k \in 0..MaxThreshold}

\* AudioBuffer.__init__ (vad.py:64-67); added counts the add calls, audio is
\* what get_audio returned last
NewAudioBuffer(max_duration_ms) ==
    [max_duration_ms |-> max_duration_ms,
     max_frames |-> max_duration_ms \div VadFrameMs,
     buffer |-> <<>>,
     added |-> 0,
     audio |-> <<>>]

\* KaldiRecognizer(model, sample_rate): decoder object number obj, and the
\* frames fed to it
NewKaldi(obj) == [obj |-> obj, fed |-> <<>>]

Clients == 1..MaxClients

\* A thread that is in no method of the SpeechRecognizer. Of its last call:
\* op the method, exit the path it left by, ret what it returned.
IdleClient ==
    [pc |-> "idle", op |-> "none", exit |-> "none", ret |-> None]

\* No call of is_speech
NoProbe ==
    [samples |-> <<>>, odd |-> FALSE, aggressiveness |-> DefaultAggressiveness,
     result |-> "none"]

\* A SpeechRecognizer as constructed (speech_recognition.py:11-27), not called
RecognizerConstructed ==
    /\ rec_lock = 0
    /\ kaldi = NewKaldi(1)
    /\ client = [k \in Clients |-> IdleClient]
    /\ rec_calls = 0

\* ConfigManager.config, read through config.get
Configs(timeouts, chunk_sizes) ==
    [silence_timeout_ms : timeouts,
     vad_aggressiveness : {DefaultAggressiveness},
     chunk_size : chunk_sizes,
     sample_rate : {DefaultSampleRate}]

\* The state after SpeechToTextAgent.__init__ (main.py:19-34), for a run that
\* draws from scope sc with a configuration among configs.
Constructed(sc, configs) ==
    /\ scope = sc
    /\ config \in configs
    /\ agent_audio_buffer = NewAudioBuffer(config.silence_timeout_ms)
    /\ is_running = FALSE
    /\ is_listening = FALSE
    /\ processing_thread = 0
    /\ audio_capture = "none"
    /\ is_recording = FALSE
    /\ stream = "none"
    /\ audio_buffer = <<>>
    /\ thr = [t \in Threads |-> Unborn]
    /\ spawned = 0
    /\ caller = IdleCaller
    /\ calls = 0
    /\ captured = 0
    /\ appended = <<>>
    /\ popped = <<>>
    /\ hist = <<>>
    /\ flushes = <<>>
    /\ transcripts = <<>>
    /\ last_status = [status |-> "none", by |-> "none"]

\* A lifecycle run: any calls of start/stop/toggle, on a short stream of
\* alternating speech and silence that the decoder turns into "a" at a flush.
Init ==
    /\ Constructed([frames |-> LifeFrames, calls |-> MaxCalls,
                 amps |-> [i \in 1..LifeFrames |->
                             IF i % 2 = 1 THEN {32767} ELSE {0}],
                 segments |-> {}, finals |-> {<<"a">>}, trace |-> FALSE, faults |-> FALSE],
                Configs({ChunkMs}, {DefaultChunkSize}))
    /\ RecognizerConstructed
    /\ probe = NoProbe

\* A pipeline run: one start(), then any frame stream and decoder behaviour.
InitLoop ==
    /\ Constructed([frames |-> MaxFrames, calls |-> 1,
                 amps |-> [i \in 1..MaxFrames |-> Amps],
                 segments |-> Texts, finals |-> Texts, trace |-> TRUE, faults |-> FALSE],
                Configs(SilenceTimeouts, {DefaultChunkSize}))
    /\ RecognizerConstructed
    /\ probe = NoProbe

\* An agent that is constructed and never started.
NoRun(texts) ==
    [frames |-> 0, calls |-> 0, amps |-> <<>>, segments |-> texts,
     finals |-> texts, trace |-> FALSE, faults |-> FALSE]

\* One SpeechRecognizer called by several threads; the decoder completes
\* segments with the text "a" or with no text.
InitRecognizer ==
    /\ Constructed(NoRun({<<>>, <<"a">>}), Configs({ChunkMs}, {DefaultChunkSize}))
    /\ RecognizerConstructed
    /\ probe = NoProbe

\* Values of max_duration_ms: below one frame, and one to four frames of
\* either length.
BufferDurations ==
    {0, VadFrameMs - 1, VadFrameMs, ChunkMs, 3 * VadFrameMs, 2 * ChunkMs}

\* The agent's AudioBuffer, used on its own.
InitBuffer ==
    /\ Constructed(NoRun({}), Configs(BufferDurations, {DefaultChunkSize}))
    /\ RecognizerConstructed
    /\ probe = NoProbe

\* Values of chunk_size: half the default, the default, twice the default.
ChunkSizes == {DefaultChunkSize \div 2, DefaultChunkSize, 2 * DefaultChunkSize}

\* A pipeline run under any configured frame size.
InitConfig ==
    /\ Constructed([frames |-> MaxFrames, calls |-> 1,
                 amps |-> [i \in 1..MaxFrames |-> Amps],
                 segments |-> {}, finals |-> {<<"a">>},
                 trace |-> FALSE, faults |-> FALSE],
                Configs(SilenceTimeouts, ChunkSizes))
    /\ RecognizerConstructed
    /\ probe = NoProbe

\* The frames given to is_speech: up to MaxSamples samples.
ProbeFrames == UNION {[1..n -> SampleValues] : n \in 0..MaxSamples}

\* One call of is_speech, on any frame, whole or not, at any aggressiveness.
InitVad ==
    /\ Constructed(NoRun({}), Configs({ChunkMs}, {DefaultChunkSize}))
    /\ RecognizerConstructed
    /\ probe \in [samples : ProbeFrames, odd : BOOLEAN,
                   aggressiveness : 0..3, result : {"none"}]

\* A restart run: calls of start and stop only, on a stream of alternating
\* speech and silence, with the record of what the loop threads did.
InitRestart ==
    /\ Constructed([frames |-> MaxFrames, calls |-> RestartCalls,
                 amps |-> [i \in 1..MaxFrames |->
                             IF i % 2 = 1 THEN {32767} ELSE {0}],
                 segments |-> {}, finals |-> {<<"a">>}, trace |-> TRUE, faults |-> FALSE],
                Configs({ChunkMs}, {DefaultChunkSize}))
    /\ RecognizerConstructed
    /\ probe = NoProbe

\* A pause run: calls of start and toggle only, on a stream of alternating
\* speech and silence in which the decoder may complete the segment "a" on a
\* frame and returns "b" at a flush, with the record of what the loop did.
InitPause ==
    /\ Constructed([frames |-> MaxFrames, calls |-> PauseCalls,
                 amps |-> [i \in 1..MaxFrames |->
                             IF i % 2 = 1 THEN {32767} ELSE {0}],
                 segments |-> {<<"a">>}, finals |-> {<<"b">>}, trace |-> TRUE,
                 faults |-> FALSE],
                Configs({ChunkMs}, {DefaultChunkSize}))
    /\ RecognizerConstructed
    /\ probe = NoProbe

\* A pipeline run in which the detector faults as well, and the faults of
\* the detector and the recognizer are recorded.
InitFault ==
    /\ Constructed([frames |-> MaxFrames, calls |-> 1,
                 amps |-> [i \in 1..MaxFrames |-> Amps],
                 segments |-> {<<"a">>}, finals |-> {<<"a">>},
                 trace |-> FALSE, faults |-> TRUE],
                Configs(SilenceTimeouts, {DefaultChunkSize}))
    /\ RecognizerConstructed
    /\ probe = NoProbe

\* The record of the queue's and the recognizer's use, kept in a pipeline run.
Logged(log, entry) == IF scope.trace THEN Append(log, entry) ELSE log

\* _notify_status(status) called on thread `by`
Notified(status, by) == [status |-> status, by |-> by]

\* The caller after its own _notify_status(status)
Noted(c, status) == [c EXCEPT !.notes = Append(c.notes, status)]

\* ------------------------------------------------------ the capture device
\* AudioCapture._audio_callback: the stream delivers one frame.
AudioCallback ==
    /\ stream = "active"
    /\ captured < scope.frames
    /\ \E a \in scope.amps[captured + 1] :
        /\ audio_buffer' = Append(audio_buffer, Frame(captured + 1, a))
        /\ appended' = Logged(appended, captured + 1)
    /\ captured' = captured + 1
    /\ UNCHANGED <<scope, config, unit_vars, agent_vars, capture_vars, thr, spawned, caller_vars,
                   popped, loop_ghosts, last_status>>

\* read_chunk taking the newest frame instead of the oldest
read_chunk_newest(buffer) ==
    IF buffer # <<>>
    THEN <<buffer[Len(buffer)], SubSeq(buffer, 1, Len(buffer) - 1)>>
    ELSE <<NoChunk, buffer>>

\* AudioCapture.read_chunk: (value returned, queue left)
read_chunk(buffer) ==
    IF buffer # <<>> THEN <<Head(buffer), Tail(buffer)>> ELSE <<NoChunk, buffer>>

\* ---------------------------------------------------------- the loop thread
\* The loop test without the paused branch: a paused loop goes on to read
LoopTestIgnoresPause(t) ==
    /\ thr[t].pc = "test"
    /\ thr' = [thr EXCEPT ![t] =
                 IF ~is_running THEN Ended("dead")
                 ELSE [thr[t] EXCEPT !.pc = "read"]]
    /\ UNCHANGED <<scope, config, unit_vars, agent_vars, capture_vars, queue_vars, spawned,
                   caller_vars, captured, loop_ghosts, last_status>>

\* main.py:119-122: the loop test and the paused sleep
LoopTest(t) ==
    /\ thr[t].pc = "test"
    /\ thr' = [thr EXCEPT ![t] =
                 IF ~is_running THEN Ended("dead")
                 ELSE IF ~is_listening THEN thr[t]
                 ELSE [thr[t] EXCEPT !.pc = "read"]]
    /\ UNCHANGED <<scope, config, unit_vars, agent_vars, capture_vars, queue_vars, spawned,
                   caller_vars, captured, loop_ghosts, last_status>>

\* main.py:124-127: read_chunk, and the sleep when it gave nothing
LoopRead(t) ==
    /\ thr[t].pc = "read"
    /\ LET r == read_chunk(audio_buffer) IN
        /\ audio_buffer' = r[2]
        /\ popped' = IF r[1] = NoChunk THEN popped ELSE Logged(popped, r[1].id)
        /\ thr' = [thr EXCEPT ![t].chunk = r[1], ![t].fault = "none",
                              ![t].pc = IF r[1] = NoChunk THEN "test" ELSE "frame"]
    /\ UNCHANGED <<scope, config, unit_vars, agent_vars, capture_vars, spawned, caller_vars,
                   captured, appended, loop_ghosts, last_status>>

\* ProcessFrame declaring the endpoint one silent frame late (> for >=)
ProcessFrameLate(l, speech, seg) ==
    LET acc == IF Truthy(seg) THEN Append(l.accumulated_segments, seg.text)
               ELSE l.accumulated_segments IN
    IF speech THEN
        [l EXCEPT !.accumulated_segments = acc, !.silence_count = 0,
                  !.in_utterance = TRUE, !.pc = "notify"]
    ELSE IF l.in_utterance THEN
        [l EXCEPT !.accumulated_segments = acc,
                  !.silence_count = l.silence_count + 1,
                  !.pc = IF l.silence_count + 1 > l.silence_threshold
                         THEN "flush" ELSE "test"]
    ELSE [l EXCEPT !.accumulated_segments = acc, !.pc = "test"]

\* ProcessFrame ending the utterance on a speech frame that completed a
\* segment
ProcessFrameSegmentEnds(l, speech, seg) ==
    LET acc == AppendIf(l.accumulated_segments, seg) IN
    IF speech THEN
        [l EXCEPT !.accumulated_segments = acc, !.silence_count = 0,
                  !.in_utterance = TRUE,
                  !.pc = IF Truthy(seg) THEN "flush" ELSE "notify"]
    ELSE IF l.in_utterance THEN
        [l EXCEPT !.accumulated_segments = acc,
                  !.silence_count = l.silence_count + 1,
                  !.pc = IF l.silence_count + 1 >= l.silence_threshold
                         THEN "flush" ELSE "test"]
    ELSE [l EXCEPT !.accumulated_segments = acc, !.pc = "test"]

\* main.py:129-145: classify, feed, accumulate, count silence
ProcessFrame(l, speech, seg) ==
    LET acc == AppendIf(l.accumulated_segments, seg) IN
    IF speech THEN
        [l EXCEPT !.accumulated_segments = acc, !.silence_count = 0,
                  !.in_utterance = TRUE, !.pc = "notify"]
    ELSE IF l.in_utterance THEN
        [l EXCEPT !.accumulated_segments = acc,
                  !.silence_count = l.silence_count + 1,
                  !.pc = IF l.silence_count + 1 >= l.silence_threshold
                         THEN "flush" ELSE "test"]
    ELSE [l EXCEPT !.accumulated_segments = acc, !.pc = "test"]

\* vad.py:30-39: is_speech with its except clause, which returns False
Classified(chunk, aggressiveness, raised) ==
    IF raised THEN FALSE ELSE is_speech(chunk, aggressiveness)

\* Whether the detector raises inside is_speech: in a run with faults only
DetectorFaults == IF scope.faults THEN BOOLEAN ELSE {FALSE}

\* The faults of one frame, as recorded in a run with faults
FrameFault(vad_raised, rec_raised) ==
    IF ~scope.faults THEN "none"
    ELSE IF vad_raised /\ rec_raised THEN "both"
    ELSE IF vad_raised THEN "vad"
    ELSE IF rec_raised THEN "rec"
    ELSE "none"

\* LoopProcess in which a fault of accept_chunk leaves the loop body
LoopProcessUnguarded(t) ==
    /\ thr[t].pc = "frame"
    /\ \E o \in AcceptOutcomes(scope.segments), vad_raised \in DetectorFaults :
        LET speech == Classified(thr[t].chunk, config.vad_aggressiveness,
                                 vad_raised)
            seg == accept_chunk(o)
        IN  /\ thr' = [thr EXCEPT ![t] =
                         IF o.kind = "fault" THEN Ended("crashed")
                         ELSE [ProcessFrame(thr[t], speech, seg) EXCEPT
                                 !.fault = FrameFault(vad_raised, FALSE)]]
            /\ hist' = Logged(hist, [thread |-> t, id |-> thr[t].chunk.id,
                                     speech |-> speech, seg |-> seg])
    /\ UNCHANGED <<scope, config, unit_vars, agent_vars, capture_vars, queue_vars,
                   spawned, caller_vars, captured, flushes, transcripts,
                   last_status>>

LoopProcess(t) ==
    /\ thr[t].pc = "frame"
    /\ \E o \in AcceptOutcomes(scope.segments), vad_raised \in DetectorFaults :
        LET speech == Classified(thr[t].chunk, config.vad_aggressiveness,
                                 vad_raised)
            seg == accept_chunk(o)
        IN  /\ thr' = [thr EXCEPT ![t] =
                         [ProcessFrame(thr[t], speech, seg) EXCEPT
                            !.fault = FrameFault(vad_raised, o.kind = "fault")]]
            /\ hist' = Logged(hist, [thread |-> t, id |-> thr[t].chunk.id,
                                     speech |-> speech, seg |-> seg])
    /\ UNCHANGED <<scope, config, unit_vars, agent_vars, capture_vars, queue_vars, spawned,
                   caller_vars, captured, flushes, transcripts, last_status>>

\* LoopNotify notifying "processing" for the frame in hand
LoopNotifyProcessing(t) ==
    /\ thr[t].pc = "notify"
    /\ last_status' = Notified("processing", "loop")
    /\ \E raises \in BOOLEAN :
        thr' = [thr EXCEPT ![t] = IF raises THEN Ended("crashed")
                                  ELSE [thr[t] EXCEPT !.pc = "test"]]
    /\ UNCHANGED <<scope, config, unit_vars, agent_vars, capture_vars, queue_vars,
                   spawned, caller_vars, captured, loop_ghosts>>

\* main.py:141: _notify_status("listening") on a speech frame
LoopNotify(t) ==
    /\ thr[t].pc = "notify"
    /\ last_status' = Notified("listening", "loop")
    /\ \E raises \in BOOLEAN :
        thr' = [thr EXCEPT ![t] = IF raises THEN Ended("crashed")
                                  ELSE [thr[t] EXCEPT !.pc = "test"]]
    /\ UNCHANGED <<scope, config, unit_vars, agent_vars, capture_vars, queue_vars, spawned,
                   caller_vars, captured, loop_ghosts>>

\* main.py:147-154: flush, append the remainder, join and trim
Finalize(l, remainder) ==
    LET acc == AppendIf(l.accumulated_segments, remainder) IN
    [l EXCEPT !.accumulated_segments = acc,
              !.full_text = FullText(acc),
              !.pc = IF FullText(acc) # <<>> THEN "emit" ELSE "reset"]

LoopFlush(t) ==
    /\ thr[t].pc = "flush"
    /\ \E o \in FlushOutcomes(scope.finals) :
        LET remainder == flush_final(o) IN
            /\ thr' = [thr EXCEPT ![t] =
                         [Finalize(thr[t], remainder) EXCEPT !.fault =
                            IF scope.faults /\ o.kind = "fault" THEN "flush"
                            ELSE "none"]]
            /\ flushes' = Logged(flushes, [thread |-> t, id |-> thr[t].chunk.id,
                                           remainder |-> remainder])
    /\ UNCHANGED <<scope, config, unit_vars, agent_vars, capture_vars, queue_vars, spawned,
                   caller_vars, captured, hist, transcripts, last_status>>

\* main.py:161-168: _handle_transcription up to the on_transcription callback
LoopEmit(t) ==
    /\ thr[t].pc = "emit"
    /\ IF thr[t].full_text = <<>>
       THEN /\ thr' = [thr EXCEPT ![t].pc = "reset"]
            /\ UNCHANGED transcripts
       ELSE /\ transcripts' = Append(transcripts,
                [thread |-> t, id |-> thr[t].chunk.id, text |-> thr[t].full_text])
            /\ \E raises \in BOOLEAN :
                thr' = [thr EXCEPT ![t] = IF raises THEN Ended("crashed")
                                          ELSE [thr[t] EXCEPT !.pc = "type"]]
    /\ UNCHANGED <<scope, config, unit_vars, agent_vars, capture_vars, queue_vars, spawned,
                   caller_vars, captured, hist, flushes, last_status>>

\* main.py:170-171: text_injector.type_text, which swallows its own errors
LoopType(t) ==
    /\ thr[t].pc = "type"
    /\ thr' = [thr EXCEPT ![t].pc = "reset"]
    /\ UNCHANGED <<scope, config, unit_vars, agent_vars, capture_vars, queue_vars, spawned,
                   caller_vars, captured, loop_ghosts, last_status>>

\* main.py:157-159: the accumulator reset after an endpoint
ResetLocals(l) ==
    [l EXCEPT !.accumulated_segments = <<>>, !.in_utterance = FALSE,
              !.silence_count = 0, !.full_text = <<>>, !.pc = "test"]

LoopReset(t) ==
    /\ thr[t].pc = "reset"
    /\ thr' = [thr EXCEPT ![t] = ResetLocals(thr[t])]
    /\ UNCHANGED <<scope, config, unit_vars, agent_vars, capture_vars, queue_vars, spawned,
                   caller_vars, captured, loop_ghosts, last_status>>

\* ------------------------------------------------------------- the caller
\* The caller's record. op is the public method running and pc its position;
\* failing tells that stop() runs in start()'s except clause, failed_at which
\* step of start() raised, cb_raised that a status callback raised. Of the
\* running call (between calls, of the one that ended last): notes are the
\* statuses it notified, entry the agent's state when it was entered, prev
\* the call that ended before it, entry0 the agent's mode when that one was
\* entered, entry_loop what had become of the thread in _processing_thread
\* when the call was entered, entry_frames the number of frames the loop had
\* processed by then. last and result: the call that ended last and how.
Snapshot ==
    [is_running |-> is_running, is_listening |-> is_listening,
     processing_thread |-> processing_thread, audio_capture |-> audio_capture,
     is_recording |-> is_recording, stream |-> stream, spawned |-> spawned]

\* _processing_thread: no thread, one in _process_audio, or one that left it
LoopState ==
    IF processing_thread = 0 THEN "none"
    ELSE IF thr[processing_thread].pc \in {"dead", "crashed"}
         THEN thr[processing_thread].pc
    ELSE "alive"

Enter(op, pc) ==
    /\ caller.op = "idle"
    /\ calls < scope.calls
    /\ caller' = [caller EXCEPT !.op = op, !.pc = pc, !.failing = FALSE,
                                !.failed_at = "none", !.cb_raised = FALSE,
                                !.prev = caller.last, !.notes = <<>>,
                                !.entry = Snapshot,
                                !.entry0 = Mode(caller.entry.is_running,
                                                caller.entry.is_listening),
                                !.entry_loop = LoopState,
                                !.entry_frames = Len(hist)]
    /\ calls' = calls + 1
    /\ UNCHANGED <<scope, config, unit_vars, agent_vars, capture_vars, queue_vars, thr, spawned,
                   captured, loop_ghosts, last_status>>

Returned(result) ==
    [caller EXCEPT !.op = "idle", !.pc = "idle", !.last = caller.op,
                   !.result = result]

CallStart == Enter("start", "s_check")
CallStop == Enter("stop", "t_flags")
CallToggle == Enter("toggle", "g_check")

\* main.py:37-39: start() while running logs and returns
StartCheck ==
    /\ caller.pc = "s_check"
    /\ caller' = IF is_running THEN Returned("returned")
                 ELSE [caller EXCEPT !.pc = "s_init"]
    /\ UNCHANGED <<scope, config, unit_vars, agent_vars, capture_vars, queue_vars, thr, spawned,
                   calls, captured, loop_ghosts, last_status>>

\* main.py:42, 90-108: _init_components. A new AudioCapture replaces the old
\* one first; the recognizer (model load) or the injector may then raise.
StartInit ==
    /\ caller.pc = "s_init"
    /\ audio_capture' = "object"
    /\ is_recording' = FALSE
    /\ stream' = "none"
    /\ audio_buffer' = <<>>
    /\ appended' = <<>>
    /\ popped' = <<>>
    /\ \E ok \in BOOLEAN :
        caller' = IF ok THEN [caller EXCEPT !.pc = "s_audio"]
                  ELSE [caller EXCEPT !.pc = "t_flags", !.failing = TRUE,
                                      !.failed_at = "init"]
    /\ UNCHANGED <<scope, config, unit_vars, agent_vars, thr, spawned, calls, captured,
                   loop_ghosts, last_status>>

\* AudioCapture.start (audio_capture.py:25-44): (is_recording, stream, raised)
\* for each behaviour of the device: "ok", "open_fails" (InputStream raises),
\* "start_fails" (stream.start raises).
CaptureStart(recording, strm, device) ==
    IF recording THEN <<recording, strm, FALSE>>
    ELSE IF device = "open_fails" THEN <<FALSE, strm, TRUE>>
    ELSE IF device = "start_fails" THEN <<FALSE, "created", TRUE>>
    ELSE <<TRUE, "active", FALSE>>

\* StartAudio without the except clause: the error leaves start() at once
StartAudioNoCleanup ==
    /\ caller.pc = "s_audio"
    /\ \E device \in {"ok", "open_fails", "start_fails"} :
        LET r == CaptureStart(is_recording, stream, device) IN
            /\ is_recording' = r[1]
            /\ stream' = r[2]
            /\ caller' = IF r[3]
                         THEN [Returned("raised") EXCEPT !.failed_at = "audio"]
                         ELSE [caller EXCEPT !.pc = "s_spawn"]
    /\ UNCHANGED <<scope, config, unit_vars, agent_vars, audio_capture, queue_vars, thr,
                   spawned, calls, captured, loop_ghosts, last_status>>

\* main.py:43
StartAudio ==
    /\ caller.pc = "s_audio"
    /\ \E device \in {"ok", "open_fails", "start_fails"} :
        LET r == CaptureStart(is_recording, stream, device) IN
            /\ is_recording' = r[1]
            /\ stream' = r[2]
            /\ caller' = IF r[3]
                         THEN [caller EXCEPT !.pc = "t_flags", !.failing = TRUE,
                                             !.failed_at = "audio"]
                         ELSE [caller EXCEPT !.pc = "s_spawn"]
    /\ UNCHANGED <<scope, config, unit_vars, agent_vars, audio_capture, queue_vars, thr, spawned,
                   calls, captured, loop_ghosts, last_status>>

\* main.py:44-49: set the flags, create and start the loop thread
StartSpawn ==
    /\ caller.pc = "s_spawn"
    /\ spawned < MaxThreads
    /\ is_running' = TRUE
    /\ is_listening' = TRUE
    /\ spawned' = spawned + 1
    /\ processing_thread' = spawned + 1
    /\ thr' = [thr EXCEPT ![spawned + 1] = FreshLocals(config.silence_timeout_ms)]
    /\ caller' = [caller EXCEPT !.pc = "s_notify"]
    /\ UNCHANGED <<scope, config, unit_vars, capture_vars, queue_vars, calls, captured,
                   loop_ghosts, last_status>>

\* main.py:51-56: notify "listening"; a raising callback enters the except
\* clause, which calls stop() and re-raises
StartNotify ==
    /\ caller.pc = "s_notify"
    /\ last_status' = Notified("listening", "caller")
    /\ \E raises \in BOOLEAN :
        caller' = IF raises
                  THEN [Noted(caller, "listening") EXCEPT
                            !.pc = "t_flags", !.failing = TRUE,
                            !.failed_at = "notify", !.cb_raised = TRUE]
                  ELSE Noted(Returned("returned"), "listening")
    /\ UNCHANGED <<scope, config, unit_vars, agent_vars, capture_vars, queue_vars, thr, spawned,
                   calls, captured, loop_ghosts>>

\* main.py:59-60
StopFlags ==
    /\ caller.pc = "t_flags"
    /\ is_running' = FALSE
    /\ is_listening' = FALSE
    /\ caller' = [caller EXCEPT !.pc = "t_join"]
    /\ UNCHANGED <<scope, config, unit_vars, processing_thread, capture_vars, queue_vars, thr,
                   spawned, calls, captured, loop_ghosts, last_status>>

\* A position where the loop thread is inside a callback or the text
\* injector, which may outlast the 2 s the join waits.
Blocking(pc) == pc \in {"notify", "emit", "type"}

\* threading.Thread.join(timeout=2) on thread t returns
JoinReturns(t) == thr[t].pc \in {"dead", "crashed"} \/ Blocking(thr[t].pc)

\* main.py:62-63
StopJoin ==
    /\ caller.pc = "t_join"
    /\ processing_thread # 0 => JoinReturns(processing_thread)
    /\ caller' = [caller EXCEPT !.pc = "t_audio"]
    /\ UNCHANGED <<scope, config, unit_vars, agent_vars, capture_vars, queue_vars, thr, spawned,
                   calls, captured, loop_ghosts, last_status>>

\* AudioCapture.stop (audio_capture.py:46-57): (is_recording, stream)
CaptureStop(recording, strm) ==
    IF ~recording THEN <<recording, strm>> ELSE <<FALSE, "none">>

\* main.py:65-66
StopAudio ==
    /\ caller.pc = "t_audio"
    /\ LET r == IF audio_capture # "none" THEN CaptureStop(is_recording, stream)
                ELSE <<is_recording, stream>> IN
        /\ is_recording' = r[1]
        /\ stream' = r[2]
    /\ caller' = [caller EXCEPT !.pc = "t_notify"]
    /\ UNCHANGED <<scope, config, unit_vars, agent_vars, audio_capture, queue_vars, thr, spawned,
                   calls, captured, loop_ghosts, last_status>>

\* StopNotify that skips the callback when "stopped" was the last status
StopNotifyOnChange ==
    /\ caller.pc = "t_notify"
    /\ IF last_status.status = "stopped"
       THEN /\ UNCHANGED last_status
            /\ caller' = Returned(IF caller.failing THEN "raised" ELSE "returned")
       ELSE /\ last_status' = Notified("stopped", "caller")
            /\ caller' = Noted(Returned(IF caller.failing THEN "raised"
                                        ELSE "returned"), "stopped")
    /\ UNCHANGED <<scope, config, unit_vars, agent_vars, capture_vars, queue_vars, thr,
                   spawned, calls, captured, loop_ghosts>>

\* main.py:68, and main.py:56 when stop() ran in start()'s except clause
StopNotify ==
    /\ caller.pc = "t_notify"
    /\ last_status' = Notified("stopped", "caller")
    /\ \E raises \in BOOLEAN :
        caller' = [Noted(Returned(IF raises \/ caller.failing THEN "raised"
                                  ELSE "returned"), "stopped")
                   EXCEPT !.cb_raised = caller.cb_raised \/ raises]
    /\ UNCHANGED <<scope, config, unit_vars, agent_vars, capture_vars, queue_vars, thr, spawned,
                   calls, captured, loop_ghosts>>

\* ToggleCheck that resumes, instead of starting, an agent that is not running
ToggleCheckResumes ==
    /\ caller.pc = "g_check"
    /\ caller' = [caller EXCEPT !.pc =
                    IF is_running /\ is_listening THEN "p_flag" ELSE "r_flag"]
    /\ UNCHANGED <<scope, config, unit_vars, agent_vars, capture_vars, queue_vars, thr,
                   spawned, calls, captured, loop_ghosts, last_status>>

\* main.py:71-78
ToggleCheck ==
    /\ caller.pc = "g_check"
    /\ caller' = [caller EXCEPT !.pc =
                    IF is_running
                    THEN (IF is_listening THEN "p_flag" ELSE "r_flag")
                    ELSE "s_check"]
    /\ UNCHANGED <<scope, config, unit_vars, agent_vars, capture_vars, queue_vars, thr, spawned,
                   calls, captured, loop_ghosts, last_status>>

\* pause() clearing the accumulator of the loop threads with the flag
PauseFlagResets ==
    /\ caller.pc = "p_flag"
    /\ is_listening' = FALSE
    /\ thr' = [t \in Threads |->
                 IF thr[t].pc \in {"unborn", "dead", "crashed"} THEN thr[t]
                 ELSE [thr[t] EXCEPT !.accumulated_segments = <<>>,
                                     !.in_utterance = FALSE,
                                     !.silence_count = 0]]
    /\ caller' = [caller EXCEPT !.pc = "p_notify"]
    /\ UNCHANGED <<scope, config, unit_vars, is_running, processing_thread, capture_vars,
                   queue_vars, spawned, calls, captured, loop_ghosts,
                   last_status>>

\* main.py:81
PauseFlag ==
    /\ caller.pc = "p_flag"
    /\ is_listening' = FALSE
    /\ caller' = [caller EXCEPT !.pc = "p_notify"]
    /\ UNCHANGED <<scope, config, unit_vars, is_running, processing_thread, capture_vars,
                   queue_vars, thr, spawned, calls, captured, loop_ghosts,
                   last_status>>

\* main.py:82
PauseNotify ==
    /\ caller.pc = "p_notify"
    /\ last_status' = Notified("paused", "caller")
    /\ \E raises \in BOOLEAN :
        caller' = [Noted(Returned(IF raises THEN "raised" ELSE "returned"),
                         "paused") EXCEPT !.cb_raised = raises]
    /\ UNCHANGED <<scope, config, unit_vars, agent_vars, capture_vars, queue_vars, thr, spawned,
                   calls, captured, loop_ghosts>>

\* main.py:86
ResumeFlag ==
    /\ caller.pc = "r_flag"
    /\ is_listening' = TRUE
    /\ caller' = [caller EXCEPT !.pc = "r_notify"]
    /\ UNCHANGED <<scope, config, unit_vars, is_running, processing_thread, capture_vars,
                   queue_vars, thr, spawned, calls, captured, loop_ghosts,
                   last_status>>

\* main.py:87
ResumeNotify ==
    /\ caller.pc = "r_notify"
    /\ last_status' = Notified("listening", "caller")
    /\ \E raises \in BOOLEAN :
        caller' = [Noted(Returned(IF raises THEN "raised" ELSE "returned"),
                         "listening") EXCEPT !.cb_raised = raises]
    /\ UNCHANGED <<scope, config, unit_vars, agent_vars, capture_vars, queue_vars, thr, spawned,
                   calls, captured, loop_ghosts>>

\* ------------------------------------------- the recognizer on its own
RecOps == {"accept_chunk", "flush_final", "reset"}

\* Thread k calls a method of the SpeechRecognizer.
RecCall(k) ==
    /\ client[k].pc = "idle"
    /\ rec_calls < MaxOps
    /\ \E op \in RecOps :
        client' = [client EXCEPT ![k].pc = "acquire", ![k].op = op]
    /\ rec_calls' = rec_calls + 1
    /\ UNCHANGED <<pipeline_vars, agent_audio_buffer, rec_lock, kaldi, probe>>

\* RecAcquire that does not wait for the lock
RecAcquireNoWait(k) ==
    /\ client[k].pc = "acquire"
    /\ rec_lock' = k
    /\ client' = [client EXCEPT ![k].pc = "body"]
    /\ UNCHANGED <<pipeline_vars, agent_audio_buffer, kaldi, rec_calls, probe>>

\* `with self._lock:` entered (speech_recognition.py:39, 60, 82)
RecAcquire(k) ==
    /\ client[k].pc = "acquire"
    /\ rec_lock = 0
    /\ rec_lock' = k
    /\ client' = [client EXCEPT ![k].pc = "body"]
    /\ UNCHANGED <<pipeline_vars, agent_audio_buffer, kaldi, rec_calls, probe>>

\* The decoder after AcceptWaveform(chunk) with outcome o: the audio is in its
\* context unless the call raised.
KaldiAccepts(kd, o, chunk) ==
    IF o.kind = "fault" THEN kd ELSE [kd EXCEPT !.fed = Append(kd.fed, chunk)]

\* self.recognizer after flush_final's body with outcome o
\* (speech_recognition.py:63-73): replaced at line 69, which the except
\* clause does not reach.
KaldiFlushed(kd, o) ==
    IF o.kind = "fault" THEN kd ELSE NewKaldi(kd.obj + 1)

\* The body of the method under the lock: (decoder left, path, value returned).
\* obj = 0 stands for `not self.recognizer`.
RecBody(kd, op, chunk, oa, of, ok) ==
    IF op = "accept_chunk" THEN
        IF kd.obj = 0 THEN <<kd, "none", None>>
        ELSE <<KaldiAccepts(kd, oa, chunk),
               IF oa.kind = "fault" THEN "fault" ELSE "return", accept_chunk(oa)>>
    ELSE IF op = "flush_final" THEN
        IF kd.obj = 0 THEN <<kd, "none", None>>
        ELSE <<KaldiFlushed(kd, of),
               IF of.kind = "fault" THEN "fault" ELSE "return", flush_final(of)>>
    ELSE \* reset (speech_recognition.py:81-84); the constructor may raise
        IF ok THEN <<NewKaldi(kd.obj + 1), "return", None>>
        ELSE <<kd, "raise", None>>

RecRun(k) ==
    /\ client[k].pc = "body"
    /\ \E oa \in AcceptOutcomes(scope.segments),
          of \in FlushOutcomes(scope.finals), ok \in BOOLEAN :
        LET r == RecBody(kaldi, client[k].op, rec_calls, oa, of, ok) IN
            /\ kaldi' = r[1]
            /\ client' = [client EXCEPT ![k].pc = "release", ![k].exit = r[2],
                                        ![k].ret = r[3]]
    /\ UNCHANGED <<pipeline_vars, agent_audio_buffer, rec_lock, rec_calls, probe>>

\* The with block is left, by return or by exception: the lock is released.
RecRelease(k) ==
    /\ client[k].pc = "release"
    /\ rec_lock' = 0
    /\ client' = [client EXCEPT ![k].pc = "idle"]
    /\ UNCHANGED <<pipeline_vars, agent_audio_buffer, kaldi, rec_calls, probe>>

NextRecognizer ==
    \E k \in Clients :
        \/ RecCall(k)
        \/ RecAcquire(k)
        \/ RecRun(k)
        \/ RecRelease(k)

SpecRecognizer == InitRecognizer /\ [][NextRecognizer]_vars

\* ------------------------------------------- the detector on its own
\* VoiceActivityDetector(aggressiveness).is_speech(audio_chunk)
VadCall ==
    /\ probe.result = "none"
    /\ probe' = [probe EXCEPT !.result =
                    IF is_speech_bytes(probe.samples, probe.odd,
                                       probe.aggressiveness)
                    THEN "true" ELSE "false"]
    /\ UNCHANGED <<pipeline_vars, agent_audio_buffer, recognizer_vars>>

SpecVad == InitVad /\ [][VadCall]_vars

\* ------------------------------------- the detector's construction
\* The aggressiveness levels a detector is constructed with, and the threshold
\* arguments (in thousandths) passed with them.
Levels == (0 - MaxLevel)..MaxLevel
ThresholdArgs == {0, 1, 2, 5, 8, 10, 11, 1000}

\* self.threshold before __init__ has run
NoThreshold == 0 - 1

\* _adjust_threshold whose last branch leaves self.threshold as it is
adjust_threshold_known_levels(threshold, aggressiveness) ==
    IF aggressiveness \in {0, 1, 2} THEN ThresholdMilli(aggressiveness)
    ELSE threshold

\* VoiceActivityDetector._adjust_threshold on a detector whose threshold is
\* threshold: each of the four branches assigns self.threshold
adjust_threshold(threshold, aggressiveness) ==
    ThresholdMilli(aggressiveness)

\* VoiceActivityDetector.__init__(aggressiveness, threshold=threshold):
\* self.threshold = threshold, then self._adjust_threshold()
NewDetector(aggressiveness, threshold) ==
    LET assigned == threshold
    IN [aggressiveness |-> aggressiveness,
        threshold |-> adjust_threshold(assigned, aggressiveness)]

\* A detector about to be constructed, at any level with any threshold
\* argument.
InitThreshold ==
    /\ Constructed(NoRun({}), Configs({ChunkMs}, {DefaultChunkSize}))
    /\ RecognizerConstructed
    /\ probe \in [samples : {<<>>}, odd : {FALSE}, aggressiveness : Levels,
                   result : {"none"}, arg : ThresholdArgs,
                   threshold : {NoThreshold}]

\* VoiceActivityDetector(aggressiveness, threshold=arg)
VadConstruct ==
    /\ probe.threshold = NoThreshold
    /\ probe' = [probe EXCEPT !.threshold =
                    NewDetector(probe.aggressiveness, probe.arg).threshold]
    /\ UNCHANGED <<pipeline_vars, agent_audio_buffer, recognizer_vars>>

SpecThreshold == InitThreshold /\ [][VadConstruct]_vars

\* ------------------------------------------ the AudioBuffer on its own
\* AudioBuffer.add (vad.py:69-72): the frames kept
add(b, audio_chunk) ==
    LET appended_to == Append(b.buffer, audio_chunk) IN
    IF Len(appended_to) > b.max_frames THEN Tail(appended_to) ELSE appended_to

BufferAdd ==
    /\ agent_audio_buffer.added < MaxAdds
    /\ agent_audio_buffer' =
         [agent_audio_buffer EXCEPT
            !.buffer = add(agent_audio_buffer, agent_audio_buffer.added + 1),
            !.added = agent_audio_buffer.added + 1]
    /\ UNCHANGED <<pipeline_vars, recognizer_vars, probe>>

\* AudioBuffer.clear (vad.py:77-78)
BufferClear ==
    /\ agent_audio_buffer' = [agent_audio_buffer EXCEPT !.buffer = <<>>]
    /\ UNCHANGED <<pipeline_vars, recognizer_vars, probe>>

\* AudioBuffer.get_audio (vad.py:74-75): the frames joined, none removed
BufferGetAudio ==
    /\ agent_audio_buffer' =
         [agent_audio_buffer EXCEPT !.audio = agent_audio_buffer.buffer]
    /\ UNCHANGED <<pipeline_vars, recognizer_vars, probe>>

NextBuffer == BufferAdd \/ BufferClear \/ BufferGetAudio

SpecBuffer == InitBuffer /\ [][NextBuffer]_vars

\* ---------------------------------------------------------- specification
Loop(t) ==
    \/ LoopTest(t)
    \/ LoopRead(t)
    \/ LoopProcess(t)
    \/ LoopNotify(t)
    \/ LoopFlush(t)
    \/ LoopEmit(t)
    \/ LoopType(t)
    \/ LoopReset(t)

Next ==
    \/ AudioCallback
    \/ \E t \in Threads : Loop(t)
    \/ CallStart
    \/ CallStop
    \/ CallToggle
    \/ StartCheck
    \/ StartInit
    \/ StartAudio
    \/ StartSpawn
    \/ StartNotify
    \/ StopFlags
    \/ StopJoin
    \/ StopAudio
    \/ StopNotify
    \/ ToggleCheck
    \/ PauseFlag
    \/ PauseNotify
    \/ ResumeFlag
    \/ ResumeNotify

Spec == Init /\ [][Next]_vars

\* The lifecycle under fair scheduling of the loop threads: a loop thread
\* that can take a step of _process_audio eventually takes it (a callback or
\* the text injector it is in returns). Nothing obliges the caller to call.
SpecFair == Init /\ [][Next]_vars /\ \A t \in Threads : WF_vars(Loop(t))

\* One start() and the pipeline it spawns.
NextLoop ==
    \/ AudioCallback
    \/ \E t \in Threads : Loop(t)
    \/ CallStart
    \/ StartCheck
    \/ StartInit
    \/ StartAudio
    \/ StartSpawn
    \/ StartNotify
    \/ StopFlags
    \/ StopJoin
    \/ StopAudio
    \/ StopNotify

SpecLoop == InitLoop /\ [][NextLoop]_vars

\* One start() and the pipeline it spawns, the detector faulting as well.
SpecFault == InitFault /\ [][NextLoop]_vars

\* One start() and the pipeline it spawns, under any configured frame size.
SpecConfig == InitConfig /\ [][NextLoop]_vars

\* start() and stop() in any order, and the pipelines they spawn.
NextPause ==
    \/ NextLoop
    \/ CallToggle
    \/ ToggleCheck
    \/ PauseFlag
    \/ PauseNotify
    \/ ResumeFlag
    \/ ResumeNotify

SpecPause == InitPause /\ [][NextPause]_vars

NextRestart == NextLoop \/ CallStop

SpecRestart == InitRestart /\ [][NextRestart]_vars

\* ------------------------------------------------- the frame queue (C1)
BufferIds == [i \in 1..Len(audio_buffer) |-> audio_buffer[i].id]

\* What has been returned, followed by what is queued, is what was appended,
\* and a read is always possible.
QueueOrder ==
    /\ appended = [i \in 1..captured |-> i]
    /\ popped \o BufferIds = appended
    /\ \A t \in Threads : thr[t].pc = "read" => ENABLED LoopRead(t)

\* One read_chunk: the oldest frame, removed; None on an empty queue, at once.
ReadStep ==
    \A t \in Threads :
        thr[t].pc = "read" /\ thr'[t].pc # "read" =>
            IF audio_buffer = <<>>
            THEN /\ thr'[t].chunk = NoChunk
                 /\ thr'[t].pc = "test"
                 /\ UNCHANGED <<audio_buffer, popped>>
            ELSE /\ thr'[t].chunk = Head(audio_buffer)
                 /\ audio_buffer' = Tail(audio_buffer)
                 /\ popped' = Append(popped, Head(audio_buffer).id)

\* C1: under any interleaving of the capture callback's appends and
\* read_chunk, frames are returned in the order appended, none twice, none
\* skipped, and a read_chunk on an empty queue returns None without blocking.
C1_Fifo == [](QueueOrder) /\ [][ReadStep]_vars

\* Two frames were returned in order, then a read found the queue empty and
\* returned None, then a further frame arrived.
C1_Witness ==
    /\ Len(popped) = 2
    /\ thr[1].pc = "test"
    /\ thr[1].chunk = NoChunk
    /\ audio_buffer # <<>>

\* ---------------------------------------------- endpointing (C2 .. C6)
\* In a pipeline run thread 1 is the only loop thread; hist, flushes and
\* transcripts are what it did, in order.
LastFrame == hist[Len(hist)].id

\* The loop is between frames: the last frame popped is fully processed.
BetweenFrames == thr[1].pc \in {"test", "read", "frame"}

\* hist is N >= 1 speech frames then exactly `silent` silent ones, and
\* accept_chunk returned no text on any of them.
SpeechThenSilence(silent) ==
    /\ Len(hist) > silent
    /\ \A i \in 1..Len(hist) :
        /\ ~Truthy(hist[i].seg)
        /\ hist[i].speech <=> (i <= Len(hist) - silent)

Threshold == silence_threshold(config.silence_timeout_ms)

\* C2 as stated: after N speech frames and silenceThreshold >= 1 silent ones
\* with no segment, and flush_final returning a non-empty text t, the callback
\* has fired exactly once, with t, on the last silent frame, and the
\* accumulator is reset.
C2_AsStated ==
    (/\ Threshold >= 1
     /\ SpeechThenSilence(Threshold)
     /\ BetweenFrames
     /\ Len(flushes) = 1
     /\ Truthy(flushes[1].remainder))
    => /\ transcripts = <<[thread |-> 1, id |-> LastFrame,
                           text |-> flushes[1].remainder.text]>>
       /\ thr[1].accumulated_segments = <<>>
       /\ ~thr[1].in_utterance
       /\ thr[1].silence_count = 0

\* C2, amended: with silenceThreshold >= 1, N speech frames and fewer than
\* silenceThreshold silent ones fire nothing; at the silenceThreshold-th
\* silent frame flush_final is called once, and the callback fires exactly
\* once, on that frame, with strip(t), if flush_final returned a text t whose
\* strip(t) is non-empty, and not at all otherwise; afterwards
\* accumulated_segments = [], in_utterance = false and silence_count = 0.
C2_Endpointing ==
    /\ (\E k \in 0..MaxThreshold + 1 : k < Threshold /\ SpeechThenSilence(k))
         => flushes = <<>> /\ transcripts = <<>> /\ thr[1].pc # "flush"
    /\ (Threshold >= 1 /\ SpeechThenSilence(Threshold)) =>
         IF thr[1].pc = "flush" THEN flushes = <<>> /\ transcripts = <<>>
         ELSE /\ Len(flushes) = 1
              /\ flushes[1].id = LastFrame
              /\ LET t == flushes[1].remainder
                     fires == Truthy(t) /\ Strip(t.text) # <<>>
                 IN  /\ thr[1].pc = "emit" => fires
                     /\ transcripts =
                          IF fires /\ thr[1].pc # "emit"
                          THEN <<[thread |-> 1, id |-> LastFrame,
                                  text |-> Strip(t.text)]>>
                          ELSE <<>>
              /\ BetweenFrames =>
                    /\ thr[1].accumulated_segments = <<>>
                    /\ ~thr[1].in_utterance
                    /\ thr[1].silence_count = 0

\* Two speech frames, one silent frame at threshold 1, the remainder "a"
\* emitted and the accumulator reset.
C2_Witness ==
    /\ Threshold = 1
    /\ Len(hist) = 3
    /\ SpeechThenSilence(1)
    /\ BetweenFrames
    /\ transcripts = <<[thread |-> 1, id |-> 3, text |-> <<"a">>]>>
    /\ thr[1].accumulated_segments = <<>>

\* The non-empty texts the recognizer returned for endpoint k: accept_chunk's
\* since the endpoint before, in order, then flush_final's remainder.
ReturnedFor(k) ==
    LET lo == IF k = 1 THEN 0 ELSE flushes[k - 1].id
        hi == flushes[k].id
        Mine(h) == lo < h.id /\ h.id <= hi /\ Truthy(h.seg)
        sel == SelectSeq(hist, Mine)
    IN  [i \in 1..Len(sel) |-> sel[i].seg.text]
        \o (IF Truthy(flushes[k].remainder) THEN <<flushes[k].remainder.text>>
            ELSE <<>>)

\* The endpoints whose joined, trimmed text is non-empty.
Voiced ==
    LET HasText(k) == Strip(Join(ReturnedFor(k))) # <<>> IN
    SelectSeq([k \in 1..Len(flushes) |-> k], HasText)

\* The callback's calls follow the voiced endpoints one to one, the last
\* voiced endpoint's call being still to come while the loop is at it.
OncePerVoicedEndpoint ==
    /\ Len(transcripts) <= Len(Voiced)
    /\ Len(Voiced) <= Len(transcripts) + 1
    /\ Len(transcripts) < Len(Voiced) => thr[1].pc = "emit"
    /\ \A j \in 1..Len(transcripts) : transcripts[j].id = flushes[Voiced[j]].id

NeverBlank ==
    \A j \in 1..Len(transcripts) :
        LET text == transcripts[j].text IN
        /\ text # <<>>
        /\ text[1] # " "
        /\ text[Len(text)] # " "

\* C3 as stated: never an empty or whitespace-only text, and one callback for
\* each endpoint.
C3_AsStated ==
    /\ NeverBlank
    /\ BetweenFrames => Len(transcripts) = Len(flushes)

\* C3, amended: on_transcription is never invoked with an empty or
\* whitespace-only text; it is invoked exactly once for each endpoint whose
\* joined, trimmed text is non-empty, and not at all for an endpoint whose
\* joined, trimmed text is empty.
C3_OncePerUtterance == NeverBlank /\ OncePerVoicedEndpoint

\* One endpoint with the whitespace-only remainder " ": reached, and no
\* callback; the loop is past it.
C3_Witness ==
    /\ Len(flushes) = 1
    /\ flushes[1].remainder = Some(<<" ">>)
    /\ BetweenFrames
    /\ transcripts = <<>>

\* C4: the text emitted at an endpoint is the non-empty texts accept_chunk
\* returned since the previous endpoint, in the order returned, then the
\* non-empty flush_final remainder, joined by one single space and trimmed;
\* "a" then "b" with an empty remainder give exactly "a b".
C4_Join ==
    \A j \in 1..Len(transcripts) :
        LET k == Voiced[j]
            parts == ReturnedFor(k)
        IN  /\ transcripts[j].text = Strip(Join(parts))
            /\ parts = <<(<<"a">>), (<<"b">>)>> =>
                 transcripts[j].text = <<"a", " ", "b">>

\* accept_chunk returned "a" then "b", flush_final nothing, "a b" was emitted.
C4_Witness ==
    /\ Len(flushes) = 1
    /\ ~Truthy(flushes[1].remainder)
    /\ ReturnedFor(1) = <<(<<"a">>), (<<"b">>)>>
    /\ Len(transcripts) = 1
    /\ transcripts[1].text = <<"a", " ", "b">>

\* C5: on a stream whose frames are all classified non-speech, starting
\* with in_utterance false, whatever the recognizer returns, the callback
\* never fires and accumulated_segments stays empty after every frame.
C5_SilenceOnly ==
    (\A i \in 1..Len(hist) : ~hist[i].speech) =>
        /\ transcripts = <<>>
        /\ thr[1].accumulated_segments = <<>>

\* C6: accumulated_segments changes only by the append of one segment while
\* in_utterance is true (the frame being processed counted), and by the reset
\* at finalization; never by an append while in_utterance is false.
C6_GrowsInUtterance ==
    [][\A t \in Threads :
        LET before == thr[t].accumulated_segments
            after == thr'[t].accumulated_segments
        IN  (after # before /\ thr'[t].pc \notin {"dead", "crashed"}) =>
                \/ /\ Len(after) = Len(before) + 1
                   /\ SubSeq(after, 1, Len(before)) = before
                   /\ thr'[t].in_utterance
                \/ /\ after = <<>>
                   /\ thr[t].pc = "reset"]_vars

\* ------------------------------------------------ lifecycle (C7 .. C10)
CallEnded(op) == caller.op = "idle" /\ caller.last = op

\* A stop() entered directly after a stop(): running, or just ended.
SecondStop == caller.prev = "stop" /\ (caller.op = "stop" \/ CallEnded("stop"))

StartEffect ==
    IF caller.result = "returned"
    THEN /\ Mode(is_running, is_listening) = "listening"
         /\ audio_capture = "object" /\ is_recording /\ stream = "active"
         /\ spawned = caller.entry.spawned + 1
         /\ processing_thread = spawned
         /\ thr[processing_thread].pc # "unborn"
         /\ caller.notes = <<"listening">>
    ELSE /\ Mode(is_running, is_listening) = "stopped"
         /\ ~is_recording /\ stream # "active"
         /\ caller.notes # <<>>
         /\ caller.notes[Len(caller.notes)] = "stopped"

EntryMode == Mode(caller.entry.is_running, caller.entry.is_listening)

\* C8: toggle() on a stopped agent has the effect of start(); on a listening
\* one it moves to Paused and notifies "paused"; on a paused one it moves to
\* Listening and notifies "listening"; two toggles in a row from Listening or
\* from Paused come back to the mode they left.
C8_Toggle ==
    /\ (CallEnded("start") \/ CallEnded("toggle")) /\ EntryMode = "stopped"
         => StartEffect
    /\ CallEnded("toggle") /\ EntryMode = "listening" =>
         /\ Mode(is_running, is_listening) = "paused"
         /\ caller.notes = <<"paused">>
    /\ CallEnded("toggle") /\ EntryMode = "paused" =>
         /\ Mode(is_running, is_listening) = "listening"
         /\ caller.notes = <<"listening">>
    /\ (CallEnded("toggle") /\ caller.prev = "toggle"
          /\ caller.entry0 \in {"listening", "paused"})
         => Mode(is_running, is_listening) = caller.entry0

\* start(), then three toggles: the last one, entered Listening, has paused
\* the agent again, which the toggle before had resumed from Paused.
C8_Witness ==
    /\ CallEnded("toggle")
    /\ caller.prev = "toggle"
    /\ caller.entry0 = "paused"
    /\ EntryMode = "listening"
    /\ Mode(is_running, is_listening) = "paused"
    /\ caller.notes = <<"paused">>

\* start() failed in _init_components or in AudioCapture.start.
StartFailed ==
    /\ CallEnded("start") \/ CallEnded("toggle")
    /\ caller.failed_at \in {"init", "audio"}

\* C9: a start() that fails in component construction or in
\* AudioCapture.start raises to its caller and leaves the agent Stopped:
\* both flags false, no loop thread spawned, the device not capturing, and
\* "stopped" the one status it notified (never "listening").
C9_FailedStart ==
    StartFailed =>
        /\ caller.result = "raised"
        /\ ~is_running /\ ~is_listening
        /\ spawned = caller.entry.spawned
        /\ processing_thread = caller.entry.processing_thread
        /\ ~is_recording /\ stream # "active"
        /\ caller.notes = <<"stopped">>

\* stream.start() raised: the stream exists and does not capture.
C9_Witness ==
    /\ StartFailed
    /\ caller.failed_at = "audio"
    /\ stream = "created"
    /\ caller.result = "raised"

\* C10: when an exception leaves the loop body the pipeline ends Stopped:
\* is_running is false and the status surfaced is "stopped".
C10_LoopFault ==
    (processing_thread # 0 /\ thr[processing_thread].pc = "crashed") =>
        /\ ~is_running
        /\ last_status.status = "stopped"

\* ------------------------------------------------- restart, exit (C11 ..)
\* C11: after an exception ended the loop thread, a start() with no stop()
\* before it restarts the pipeline: when it returns, a new loop thread has
\* been spawned and is the agent's processing thread.
C11_Restart ==
    (/\ CallEnded("start")
     /\ caller.entry_loop = "crashed"
     /\ caller.prev \in {"start", "toggle"}
     /\ caller.result = "returned")
    => /\ spawned = caller.entry.spawned + 1
       /\ processing_thread = spawned
       /\ thr[spawned].pc # "unborn"

\* Thread t is in _process_audio.
Alive(t) == thr[t].pc \notin {"unborn", "dead", "crashed"}

\* C12: every loop thread alive when stop() has cleared is_running
\* eventually leaves _process_audio, also when start() is called again after
\* stop() has returned.
C12_LoopExits ==
    \A t \in Threads :
        (caller.pc = "t_join" /\ Alive(t)) ~> ~Alive(t)

\* C13: under any sequence and interleaving of start(), stop() and
\* toggle(), accept_chunk is called on the frames in strict capture order,
\* once each: the frames given to the recognizer, in the order of the calls,
\* have increasing capture numbers.
C13_CaptureOrder ==
    \A i, j \in 1..Len(hist) : i < j => hist[i].id < hist[j].id

\* ---------------------------------------- the recognizer (C14 .. C15)
\* The threads inside a `with self._lock:` block.
InSection == {k \in Clients : client[k].pc \in {"body", "release"}}

\* C14: accept_chunk, flush_final and reset are mutually exclusive on one
\* SpeechRecognizer, for any number of calling threads: at most one thread is
\* inside the locked section, it holds the lock, and the lock is free once
\* the thread has left, by whatever path: return, the fault path, an
\* exception.
C14_MutualExclusion ==
    /\ Cardinality(InSection) <= 1
    /\ \A k \in InSection : rec_lock = k
    /\ InSection = {} => rec_lock = 0

\* Thread 1 left its last call by the fault path and waits for the lock
\* again, which thread 2 took after it and holds.
C14_Witness ==
    /\ client[1].exit = "fault"
    /\ client[1].pc = "acquire"
    /\ client[2].pc = "body"
    /\ rec_lock = 2

\* C15: when flush_final is about to return, with text, with nothing or
\* after a fault it swallowed, the decoder has been reset: it holds no audio
\* fed before the flush.
C15_FlushResets ==
    \A k \in Clients :
        (client[k].pc = "release" /\ client[k].op = "flush_final")
            => kaldi.fed = <<>>

\* ------------------------------------------------ per-frame faults (C16)
\* What a step of thread t from locals l to locals m does with a fault.
FaultContained(l, m) ==
    \* the loop is left by an exception only out of a callback
    /\ (m.pc = "crashed" /\ l.pc # "crashed") => l.pc \in {"notify", "emit"}
    /\ (l.pc = "frame" /\ m.fault \in {"rec", "both"}) =>
        \* accept_chunk returned None: nothing is appended, the frame counts
        \* as the detector classified it
        /\ m.accumulated_segments = l.accumulated_segments
        /\ m.pc \in {"notify", "test", "flush"}
    /\ (l.pc = "frame" /\ m.fault \in {"vad", "both"}) =>
        \* is_speech returned False: the frame counts as silence
        /\ m.in_utterance = l.in_utterance
        /\ m.pc \in {"test", "flush"}
        /\ m.pc = "flush" <=>
              (l.in_utterance /\ l.silence_count + 1 >= l.silence_threshold)
    /\ (l.pc = "frame" /\ m.fault = "both") =>
        m = [ProcessFrame(l, FALSE, None) EXCEPT !.fault = "both"]
    /\ (l.pc = "flush" /\ m.fault = "flush") =>
        \* flush_final returned None: the endpoint goes on with the segments
        \* accumulated
        /\ m.accumulated_segments = l.accumulated_segments
        /\ m.in_utterance = l.in_utterance
        /\ m.full_text = FullText(l.accumulated_segments)
        /\ m.pc \in {"emit", "reset"}

CallerNotifies == Len(caller'.notes) = Len(caller.notes) + 1

\* A step in which loop thread t calls on_status_change.
LoopNotifies(t) == thr[t].pc = "notify" /\ thr'[t].pc # "notify"

\* The status each notifying position of the caller sends.
StatusAt(pc) ==
    IF pc \in {"s_notify", "r_notify"} THEN "listening"
    ELSE IF pc = "p_notify" THEN "paused"
    ELSE "stopped"

NotesOfCall ==
    /\ CallEnded("stop") => caller.notes = <<"stopped">>
    /\ (CallEnded("start") \/ CallEnded("toggle")) =>
         caller.notes =
            IF EntryMode = "listening" /\ caller.last = "start" THEN <<>>
            ELSE IF EntryMode = "paused" /\ caller.last = "start" THEN <<>>
            ELSE IF EntryMode = "listening" THEN <<"paused">>
            ELSE IF EntryMode = "paused" THEN <<"listening">>
            ELSE IF caller.result = "returned" THEN <<"listening">>
            ELSE IF caller.failed_at = "notify" THEN <<"listening", "stopped">>
            ELSE <<"stopped">>

\* What a step notifies.
NotifyStep ==
    /\ CallerNotifies =>
        /\ last_status' = Notified(StatusAt(caller.pc), "caller")
        /\ caller'.notes = Append(caller.notes, StatusAt(caller.pc))
        /\ StatusAt(caller.pc) = Mode(is_running', is_listening')
    /\ \A t \in Threads :
        (LoopNotifies(t) => last_status' = Notified("listening", "loop"))
    /\ (last_status' # last_status) =>
        (CallerNotifies \/ \E u \in Threads : LoopNotifies(u))

FrameDurationMs == (config.chunk_size * 1000) \div config.sample_rate

\* C17: after any sequence of add, clear and get_audio the AudioBuffer holds
\* at most max_duration_ms / frame_duration_ms frames, frame_duration_ms being
\* the duration of one pipeline frame, and they are the frames added last, in
\* the order added.
C17_Capacity ==
    LET b == agent_audio_buffer IN
    /\ Len(b.buffer) * FrameDurationMs <= b.max_duration_ms
    /\ \A i \in 1..Len(b.buffer) : b.buffer[i] = b.added - Len(b.buffer) + i

\* C19: the endpoint threshold the loop uses is silence_timeout_ms divided
\* by the frame duration of the configured frame size and sample rate, for
\* every configuration, and the endpoint is declared at a non-speech frame
\* at which the silence run has reached it.
C19_Threshold ==
    \A t \in Threads :
        Alive(t) =>
            /\ thr[t].silence_threshold =
                 config.silence_timeout_ms \div FrameDurationMs
            /\ thr[t].pc = "flush" =>
                 thr[t].silence_count >= thr[t].silence_threshold

\* ---------------------------------------------------- the detector (C20)
Abs(x) == IF x < 0 THEN -x ELSE x

\* Every sample of the probed frame has magnitude a.
AllOfMagnitude(a) ==
    \A i \in 1..Len(probe.samples) : Abs(probe.samples[i]) = a

\* A whole, non-empty frame has been classified.
WholeFrameClassified == probe.result # "none" /\ ~probe.odd /\ probe.samples # <<>>

\* magnitude a is above threshold * 32768
Above(a) == a * 1000 > ThresholdMilli(probe.aggressiveness) * FullScale

\* C20: is_speech returns false on an empty frame and on an all-zero frame
\* of any length, at every aggressiveness; at aggressiveness 2 it returns
\* true on a frame whose samples all have magnitude 32767; it returns true
\* iff the frame's RMS is above threshold * 32768: on a frame of one
\* magnitude iff that magnitude is, never when no sample is, always when all
\* are; and as the pipeline's frames of one magnitude are classified.
C20_IsSpeech ==
    /\ (probe.result # "none" /\ (probe.samples = <<>> \/ AllOfMagnitude(0)))
         => probe.result = "false"
    /\ (WholeFrameClassified /\ probe.aggressiveness = 2 /\ AllOfMagnitude(32767))
         => probe.result = "true"
    /\ WholeFrameClassified =>
         /\ \A a \in {Abs(v) : v \in SampleValues} :
              AllOfMagnitude(a) =>
                 /\ probe.result = "true" <=> Above(a)
                 /\ probe.result = "true" <=>
                       is_speech(Frame(1, a), probe.aggressiveness)
         /\ probe.result = "true" =>
              \E i \in 1..Len(probe.samples) : Above(Abs(probe.samples[i]))
         /\ (\A i \in 1..Len(probe.samples) : Above(Abs(probe.samples[i])))
              => probe.result = "true"

\* A full-scale frame of mixed signs was classified speech at
\* aggressiveness 2.
C20_Witness ==
    /\ probe.samples = <<32767, -32767, 32767>>
    /\ ~probe.odd
    /\ probe.aggressiveness = 2
    /\ probe.result = "true"

\* ---------------------------------------------------------------- C21
\* The thresholds of the levels, in thousandths, as the specification
\* gives them.
thresholdFor(level) ==
    CASE level = 0 -> 2
      [] level = 1 -> 5
      [] level = 2 -> 8
      [] OTHER -> 10

\* C21: the threshold of a constructed detector is thresholdFor of its
\* aggressiveness level whatever threshold argument the constructor was given,
\* the values being 0.002, 0.005, 0.008 and 0.01, and
\* thresholdFor(0) < thresholdFor(1) < thresholdFor(2) < thresholdFor(other)
\* for every other level, negative ones included.
C21_ThresholdFor ==
    /\ probe.threshold # NoThreshold =>
          /\ probe.threshold = thresholdFor(probe.aggressiveness)
          /\ probe.threshold = ThresholdMilli(probe.aggressiveness)
          /\ \A a \in ThresholdArgs :
                NewDetector(probe.aggressiveness, a).threshold = probe.threshold
    /\ ThresholdMilli(0) = 2 /\ ThresholdMilli(1) = 5 /\ ThresholdMilli(2) = 8
    /\ ThresholdMilli(0) < ThresholdMilli(1)
    /\ ThresholdMilli(1) < ThresholdMilli(2)
    /\ \A other \in Levels \ {0, 1, 2} :
          /\ ThresholdMilli(other) = 10
          /\ ThresholdMilli(2) < ThresholdMilli(other)

\* A detector constructed at a negative level with a threshold argument of 1.0
\* has the threshold 0.01.
C21_Witness ==
    /\ probe.aggressiveness < 0
    /\ probe.arg = 1000
    /\ probe.threshold = 10

\* ---------------------------------------------------------------- C22
\* pause() has notified "paused" and returned, and no call was made since.
PausedNotified ==
    /\ CallEnded("toggle")
    /\ caller.notes = <<"paused">>
    /\ is_running /\ ~is_listening

\* The positions at which a loop thread pops a frame, calls the detector and
\* the recognizer, or fires the transcription callback.
Consuming(pc) == pc \in {"read", "frame", "flush", "emit"}

\* C22 as stated: once pause() has notified "paused", no loop thread pops a
\* frame, calls the detector or the recognizer, or fires the transcription
\* callback, whatever the interleaving.
C22_AsStated ==
    [][PausedNotified =>
         \A t \in Threads : Consuming(thr[t].pc) => thr'[t] = thr[t]]_vars

\* One step of a running agent whose is_listening is cleared.
PausedStep ==
    (is_running /\ ~is_listening) =>
        /\ \A t \in Threads :
              /\ thr[t].pc = "test" => thr'[t] = thr[t]
              /\ thr'[t].pc = "read" => thr[t].pc = "read"
        /\ audio_buffer' # audio_buffer =>
              \/ /\ Len(audio_buffer') = Len(audio_buffer) + 1
                 /\ SubSeq(audio_buffer', 1, Len(audio_buffer)) = audio_buffer
              \/ /\ audio_buffer # <<>>
                 /\ audio_buffer' = Tail(audio_buffer)
                 /\ \E t \in Threads : thr[t].pc = "read" /\ thr'[t].pc = "frame"

\* C22: while is_listening is cleared, a loop thread at its loop test stays
\* there with its state unchanged and no thread begins an iteration, so that
\* a thread pops at most the one frame whose loop test preceded the pause; the
\* queue otherwise only grows, and the device delivers frames whatever
\* is_listening and the length of the queue are.
C22_PausedLoop ==
    /\ []((stream = "active" /\ captured < scope.frames) => ENABLED AudioCallback)
    /\ [][PausedStep]_vars

\* pause() has returned, the loop thread waits at its loop test, and the two
\* frames delivered since are in the queue.
C22_Witness ==
    /\ PausedNotified
    /\ thr[1].pc = "test"
    /\ Len(audio_buffer) = 2

\* ---------------------------------------------------------------- C23
\* s is a prefix of r.
IsPrefix(s, r) == Len(s) <= Len(r) /\ SubSeq(r, 1, Len(s)) = s

\* Thread state l is at the end of an utterance: its frame in hand is
\* non-speech, it is in an utterance, and its silence run has reached the
\* threshold.
AtEndpoint(l) ==
    /\ ~is_speech(l.chunk, config.vad_aggressiveness)
    /\ l.in_utterance
    /\ l.silence_count >= l.silence_threshold

\* One step of the loop, as to how an utterance ends.
EndpointStep ==
    /\ \A t \in Threads :
        LET l == thr[t]
            m == thr'[t]
            speech == is_speech(l.chunk, config.vad_aggressiveness)
        IN  /\ (m.pc = "flush" /\ l.pc # "flush") =>
                  /\ l.pc = "frame" /\ ~speech /\ l.in_utterance
                  /\ m.silence_count = l.silence_count + 1
                  /\ AtEndpoint(m)
            /\ (l.pc = "frame" /\ m.pc # "frame" /\ speech) =>
                  /\ m.pc = "notify"
                  /\ m.silence_count = 0 /\ m.in_utterance
                  /\ IsPrefix(l.accumulated_segments, m.accumulated_segments)
            /\ (l.pc = "frame" /\ m.pc # "frame" /\ ~speech
                  /\ (~l.in_utterance \/ l.silence_count + 1 < l.silence_threshold)) =>
                  /\ m.pc = "test"
                  /\ m.in_utterance = l.in_utterance
                  /\ IsPrefix(l.accumulated_segments, m.accumulated_segments)
    /\ flushes' # flushes =>
          \E t \in Threads : thr[t].pc = "flush" /\ AtEndpoint(thr[t])
    /\ transcripts' # transcripts =>
          \E t \in Threads : thr[t].pc = "emit" /\ AtEndpoint(thr[t])

\* C23: flush_final and the transcription callback are reached only from a
\* non-speech frame processed in an utterance whose silence run has reached
\* silence_threshold; a frame on which accept_chunk completed a segment does
\* not by that end the utterance; and a speech frame after a shorter silence
\* run sets silence_count to 0 and keeps the utterance and its segments.
C23_SilenceEnds ==
    /\ [](\A t \in Threads : thr[t].pc \in {"flush", "emit"} => AtEndpoint(thr[t]))
    /\ [][EndpointStep]_vars

\* With a threshold of two frames: speech, one silent frame on which a segment
\* was completed, then speech again; nothing was flushed, the silence run is
\* back at 0 and the segment is kept.
C23_Witness ==
    /\ Threshold = 2
    /\ Len(hist) = 3
    /\ hist[1].speech /\ ~hist[2].speech /\ hist[3].speech
    /\ Truthy(hist[2].seg)
    /\ flushes = <<>> /\ transcripts = <<>>
    /\ thr[1].in_utterance /\ thr[1].silence_count = 0
    /\ thr[1].accumulated_segments # <<>>

\* ---------------------------------------------------------------- C24
\* The accumulator of thread state l is as _process_audio initialises it.
FreshAccumulator(l) ==
    /\ l.accumulated_segments = <<>>
    /\ ~l.in_utterance
    /\ l.silence_count = 0

\* C24: when a start() that follows a stop() starts the pipeline, processing
\* begins on a fresh accumulator whatever the state was at stop(): every loop
\* thread then in _process_audio has accumulated_segments = [], in_utterance
\* false and silence_count = 0, so that nothing accumulated before the stop()
\* can reach a transcript emitted after the restart.
C24_FreshAtRestart ==
    [][(caller.pc = "s_spawn" /\ caller'.pc = "s_notify" /\ caller.prev = "stop") =>
         \A t \in Threads :
            thr'[t].pc \notin {"unborn", "dead", "crashed"} =>
                FreshAccumulator(thr'[t])]_vars

\* ---------------------------------------------------------------- C25
\* The loop threads that are in _process_audio.
LoopThreads == {t \in Threads : Alive(t)}

\* C25: at most one pipeline loop thread is alive at any time, whatever the
\* sequence and interleaving of start(), stop() and toggle(), also when a
\* start() follows a stop() whose bounded join of the loop thread timed out.
C25_OneLoopThread == Cardinality(LoopThreads) <= 1

\* ---------------------------------------------------------------- C26
\* No call is in progress and no loop thread is in the middle of a frame.
Settled ==
    /\ caller.op = "idle"
    /\ \A t \in Threads : thr[t].pc \in {"unborn", "dead", "crashed", "test"}

\* C26: once the calls have completed and the loop has finished the frame it
\* was processing, the status notified last is that of the agent: "paused"
\* after pause(), not overwritten by a "listening" of the loop thread, and
\* "stopped" after stop().
C26_LastStatus ==
    Settled =>
        /\ (caller.last = "toggle" /\ caller.notes = <<"paused">>)
              => last_status.status = "paused"
        /\ caller.last = "stop" => last_status.status = "stopped"

\* ---------------------------------------------------------------- C27
\* The utterance accumulator of thread state l
Accumulator(l) ==
    <<l.in_utterance, l.silence_count, l.accumulated_segments>>

\* One step, as to what pause() and resume() do to the loop.
PauseKeepsStep ==
    /\ (caller.pc \in {"p_flag", "p_notify", "r_flag", "r_notify"}
          /\ caller' # caller) =>
          /\ thr' = thr
          /\ audio_buffer' = audio_buffer
          /\ flushes' = flushes /\ transcripts' = transcripts
    /\ \A t \in Threads :
          (is_running /\ ~is_listening /\ thr[t].pc = "test") =>
              /\ Accumulator(thr'[t]) = Accumulator(thr[t])
              /\ thr'[t].pc = "test"

\* C27: pause() and resume() change no loop thread's in_utterance,
\* silence_count and accumulated_segments, drop no queued frame and finalize
\* nothing, and a loop thread waiting while paused keeps them, so that an
\* utterance in progress at pause() goes on after resume(); each loop thread
\* processes the frames it pops, those queued during the pause included, in
\* capture order.
C27_PauseKeeps ==
    /\ [](\A i, j \in 1..Len(hist) :
            (i < j /\ hist[i].thread = hist[j].thread) => hist[i].id < hist[j].id)
    /\ [][PauseKeepsStep]_vars

\* resume() has returned after a pause() that found the speech frame 1
\* processed and its segment "a" accumulated; frame 2, silent, processed since,
\* ended the utterance, which was emitted as "a b".
C27_Witness ==
    /\ CallEnded("toggle") /\ caller.prev = "toggle"
    /\ caller.notes = <<"listening">>
    /\ caller.entry_frames = 1
    /\ Len(hist) = 2
    /\ hist[1].id = 1 /\ hist[1].seg = Some(<<"a">>)
    /\ hist[2].id = 2
    /\ Len(transcripts) = 1
    /\ transcripts[1].text = <<"a", " ", "b">>

\* ---------------------------------------------------------------- C28
\* The positions at which a loop thread is in a callback or in the text
\* injector: on_status_change, on_transcription, type_text.
InCallback(pc) == pc \in {"notify", "emit", "type"}

\* C28: once stop() has returned and until the next call, no loop thread
\* invokes a callback: none enters on_status_change, on_transcription or the
\* text injector, also a thread that was inside a callback when stop() was
\* called.
C28_QuietAfterStop ==
    [][(CallEnded("stop") /\ caller' = caller) =>
         \A t \in Threads :
            (InCallback(thr'[t].pc) /\ thr'[t].pc # thr[t].pc) => FALSE]_vars

\* ---------------------------------------------------------------- C29
\* C29: outside AudioCapture.start and AudioCapture.stop, is_recording is
\* true iff a capture stream is held, also after a start() that failed once
\* the stream was created; so that stop() releases every stream that was
\* opened.
C29_RecordingIffStream == is_recording <=> stream # "none"

=============================================================================
